---- MODULE Spec2Model ----
(***************************************************************************)
(* Authentication core of the FastAPI backend: user registration, login,  *)
(* JWT issuance and validation, and the bearer-token gate in front of the *)
(* protected /consultar route.                                            *)
(*                                                                         *)
(* The repository holds two versions of the application:                  *)
(*   deploy = "app" : the single-file application app/app.py              *)
(*   deploy = "pkg" : the package application, routes of app/main.py and  *)
(*                    the helpers of app/auth.py, over app/database.py,   *)
(*                    app/config.py and app/schemas.py                    *)
(* Time is counted in whole minutes (the unit of the token lifetime).     *)
(*                                                                         *)
(* Spec     : registration and login with every input and concurrent      *)
(*            workers, at one instant                                     *)
(* SpecGate : registration, login, the protected route and the clock      *)
(***************************************************************************)
EXTENDS Integers, FiniteSets, Sequences, TLC

VARIABLES
    deploy,     \* which version of the application is running
    now,        \* the clock, datetime.utcnow(), in minutes
    users,      \* the rows of table "users"
    nextId,     \* the next value of the autoincrement primary key
    reg,        \* per worker: the /registrar call in flight
    resp,       \* the last response of /registrar, /login or create_jwt_token
    regOK,      \* per email: how many /registrar calls answered 200
    loginErr,   \* the last /login error answered for each failure cause
    req         \* the /consultar request: its dependency and its handler

vars == <<deploy, now, users, nextId, reg, resp, regOK, loginErr, req>>

----------------------------------------------------------------------------
(* Bounds of the model *)

NumWorkers == 2
MaxUsers == 3
MaxTime == 62

Workers == 1..NumWorkers

(* Program constants *)

ACCESS_TOKEN_EXPIRE_MINUTES == 30
auth_ACCESS_TOKEN_EXPIRE_MINUTES == 30
settings_access_token_expire_minutes == 30

SECRET_KEY == "app.JWT_SECRET_KEY"
auth_SECRET_KEY == "auth.JWT_SECRET_KEY"
settings_secret_key == "settings.SECRET_KEY"

(* Inputs *)

WellFormedEmails == {"a@x.com", "b@x.com"}
MalformedEmails == {"not-an-email"}
Names == {"A"}
Passwords == {"secret", ""}
LoginPasswords == Passwords \cup {"wrong"}
Salts == {1, 2}
Delays == {ACCESS_TOKEN_EXPIRE_MINUTES - 1, ACCESS_TOKEN_EXPIRE_MINUTES,
           ACCESS_TOKEN_EXPIRE_MINUTES + 1}

----------------------------------------------------------------------------
(* Values *)

NoUser == [id |-> 0]

\* pydantic EmailStr: the value has the shape of an email address
EmailStr(e) == e \in WellFormedEmails

\* bcrypt: the stored string carries the salt and the digest of (salt, password)

\* variant: the password itself is what gets stored
hash_password_plaintext(password, salt) == [text |-> password]

hash_password(password, salt) ==
    [salt |-> salt, digest |-> <<salt, password>>]

verify_password(plain, hashed) ==
    /\ DOMAIN hashed = {"salt", "digest"}
    /\ hashed.digest = <<hashed.salt, plain>>

\* str(int) and int(str) on the primary key, for ids of one decimal digit
py_str(i) ==
    CASE i = 0 -> "0" [] i = 1 -> "1" [] i = 2 -> "2" [] i = 3 -> "3"
      [] i = 4 -> "4" [] i = 5 -> "5" [] i = 6 -> "6" [] i = 7 -> "7"
      [] i = 8 -> "8" [] i = 9 -> "9"

ValueError == -1

py_int(s) ==
    IF \E i \in 0..9 : py_str(i) = s
    THEN CHOOSE i \in 0..9 : py_str(i) = s
    ELSE ValueError

----------------------------------------------------------------------------
(* The user store *)

get_user_by_email(rows, email) ==
    IF \E u \in rows : u.email = email
    THEN CHOOSE u \in rows : u.email = email
    ELSE NoUser

get_user_by_id(rows, id) ==
    IF \E u \in rows : u.id = id
    THEN CHOOSE u \in rows : u.id = id
    ELSE NoUser

\* Column(String(255), unique=True): the INSERT of a second row with the
\* same email raises IntegrityError at commit

\* variant: the column without unique=True
NoUniqueViolation(rows, email) == FALSE

UniqueViolation(rows, email) == \E u \in rows : u.email = email

\* a row of "users"; created_at, which nothing reads, is left out
User(id, name, email, hashed) ==
    [id |-> id, name |-> name, email |-> email, hashed_password |-> hashed]

----------------------------------------------------------------------------
(* Tokens: jose jwt.encode / jwt.decode with HS256 *)

jwt_encode(payload, key) == [key |-> key, claims |-> payload]

JWTError == [error |-> "JWTError"]

\* signature check with the pinned key, then the exp claim against the
\* clock: ExpiredSignatureError, a JWTError, when exp < now
jwt_decode(token, key, t) ==
    IF token.key # key THEN JWTError
    ELSE IF "exp" \in DOMAIN token.claims /\ token.claims.exp < t THEN JWTError
    ELSE token.claims

payload_get(payload, claim) ==
    IF claim \in DOMAIN payload THEN payload[claim] ELSE "None"

\* app/app.py
\* variant: timedelta(hours=...) for timedelta(minutes=...)
create_access_token_hours(sub, t) ==
    jwt_encode([sub |-> sub, exp |-> t + 60 * ACCESS_TOKEN_EXPIRE_MINUTES], SECRET_KEY)

create_access_token(sub, t) ==
    jwt_encode([sub |-> sub, exp |-> t + ACCESS_TOKEN_EXPIRE_MINUTES], SECRET_KEY)

\* app/auth.py
create_jwt_token(user, t) ==
    jwt_encode([sub |-> py_str(user.id), name |-> user.name, iat |-> t,
                exp |-> t + auth_ACCESS_TOKEN_EXPIRE_MINUTES], auth_SECRET_KEY)

\* decode_jwt answers None for a JWTError; the caller tests `not payload`
decode_jwt(token, t) == jwt_decode(token, auth_SECRET_KEY, t)

\* app.auth.create_access_token as app/main.py calls it: the claims it is
\* given plus the expiry
main_create_access_token(data, t) ==
    jwt_encode([sub |-> data.sub, name |-> data.name,
                exp |-> t + settings_access_token_expire_minutes],
               settings_secret_key)

----------------------------------------------------------------------------
(* The dependency of the protected route *)

Bearer(token) == [scheme |-> "Bearer", credentials |-> token]

\* what a dependency answers: status 0 is "returned", any other status is the
\* HTTP error it ended with
Deny(status, detail, cause, validated) ==
    [status |-> status, detail |-> detail, cause |-> cause,
     validated |-> validated, resolved |-> FALSE, user |-> 0, sub |-> ""]

Grant(user, sub, resolved) ==
    [status |-> 0, detail |-> "", cause |-> "ok",
     validated |-> TRUE, resolved |-> resolved, user |-> user, sub |-> sub]

\* fastapi.security.HTTPBearer() with auto_error: no Authorization header, or
\* a scheme other than Bearer, ends the request with 403
HTTPBearer(cred) ==
    IF cred.scheme = ""
    THEN Deny(403, "Not authenticated", "no header", FALSE)
    ELSE IF cred.scheme # "Bearer"
    THEN Deny(403, "Invalid authentication credentials", "scheme", FALSE)
    ELSE Grant(0, "", FALSE)

\* app/app.py
\* variant: the lookup of app/auth.py, by int(sub), on the email subject
app_get_current_user_by_id(cred, rows, t) ==
    IF HTTPBearer(cred).status # 0 THEN HTTPBearer(cred)
    ELSE LET payload == jwt_decode(cred.credentials, SECRET_KEY, t) IN
         IF payload = JWTError
         THEN Deny(403, "Token invalido ou expirado", "token", FALSE)
         ELSE IF payload_get(payload, "sub") = "None"
         THEN Deny(403, "Token invalido ou expirado", "no sub", FALSE)
         ELSE LET user == get_user_by_id(rows, py_int(payload.sub)) IN
              IF user = NoUser
              THEN Deny(403, "Usuario nao encontrado", "no user", TRUE)
              ELSE Grant(user.id, payload.sub, TRUE)

app_get_current_user(cred, rows, t) ==
    IF HTTPBearer(cred).status # 0 THEN HTTPBearer(cred)
    ELSE LET payload == jwt_decode(cred.credentials, SECRET_KEY, t) IN
         IF payload = JWTError
         THEN Deny(403, "Token invalido ou expirado", "token", FALSE)
         ELSE IF payload_get(payload, "sub") = "None"
         THEN Deny(403, "Token invalido ou expirado", "no sub", FALSE)
         ELSE LET user == get_user_by_email(rows, payload.sub) IN
              IF user = NoUser
              THEN Deny(403, "Usuario nao encontrado", "no user", TRUE)
              ELSE Grant(user.id, payload.sub, TRUE)

\* app/main.py: returns the payload, the store is not read
main_get_current_user(cred, t) ==
    IF HTTPBearer(cred).status # 0 THEN HTTPBearer(cred)
    ELSE LET payload == jwt_decode(cred.credentials, settings_secret_key, t) IN
         IF payload = JWTError
         THEN Deny(403, "Could not validate credentials", "token", FALSE)
         ELSE IF payload_get(payload, "sub") = "None"
         THEN Deny(403, "Could not validate credentials", "no sub", FALSE)
         ELSE Grant(0, payload.sub, FALSE)

\* app/auth.py: int(user_id) is outside any try, its ValueError ends the
\* request with 500; a subject that names no row ends it with 404
auth_get_current_user(cred, rows, t) ==
    IF HTTPBearer(cred).status # 0 THEN HTTPBearer(cred)
    ELSE LET payload == decode_jwt(cred.credentials, t) IN
         IF payload = JWTError
         THEN Deny(403, "Token invalido ou expirado", "token", FALSE)
         ELSE IF payload_get(payload, "sub") = "None"
         THEN Deny(403, "Token mal formado", "no sub", FALSE)
         ELSE IF py_int(payload.sub) = ValueError
         THEN Deny(500, "Internal Server Error", "sub not an id", FALSE)
         ELSE LET user == get_user_by_id(rows, py_int(payload.sub)) IN
              IF user = NoUser
              THEN Deny(404, "Usuario nao encontrado", "no user", TRUE)
              ELSE Grant(user.id, payload.sub, TRUE)

----------------------------------------------------------------------------
(* app.models.User as app/main.py uses it: the password helpers and the   *)
(* unique index on email                                                   *)

models_get_password_hash(password, salt) ==
    [salt |-> salt, digest |-> <<salt, password>>]

models_verify_password(plain, hashed) ==
    /\ DOMAIN hashed = {"salt", "digest"}
    /\ hashed.digest = <<hashed.salt, plain>>

models_UniqueViolation(rows, email) == \E u \in rows : u.email = email

----------------------------------------------------------------------------
(* Login *)

\* app/app.py
\* variant: the row is returned without verify_password
authenticate_user_no_verify(rows, email, senha) ==
    get_user_by_email(rows, email)

authenticate_user(rows, email, senha) ==
    LET user == get_user_by_email(rows, email) IN
    IF user = NoUser \/ ~verify_password(senha, user.hashed_password)
    THEN NoUser
    ELSE user

----------------------------------------------------------------------------
(* Responses and requests *)

NoBody == [name |-> "", email |-> "", senha |-> ""]

Bodies == [name : Names, email : WellFormedEmails \cup MalformedEmails,
           senha : Passwords]

\* a response: route, status, body and headers, and what the call was and
\* did: whether its email was malformed, its password empty, its email
\* stored by another call when it ended, its credentials those of a stored
\* row, how many rows it added, whom and when it issued a token for
Response(route, status, body, headers, call, added, uid, at) ==
    [route |-> route, status |-> status, body |-> body, headers |-> headers,
     malformed |-> call.malformed, empty |-> call.empty, dup |-> call.dup,
     match |-> call.match, added |-> added, uid |-> uid, at |-> at]

Input(malformed, empty, dup, match) ==
    [malformed |-> malformed, empty |-> empty, dup |-> dup, match |-> match]

NoResponse ==
    Response("none", 0, [detail |-> ""], "", Input(FALSE, FALSE, FALSE, FALSE), 0, 0, 0)

LoginError(status, detail, headers) ==
    [status |-> status, detail |-> detail, headers |-> headers]

NoError == LoginError(0, "", "")

\* why a login for `email` that fails does: no row, or a row and another password
Cause(rows, email) ==
    IF \E u \in rows : u.email = email THEN "wrong" ELSE "absent"

Stored(rows, email) == \E u \in rows : u.email = email

Matches(rows, email, senha) ==
    \E u \in rows : /\ u.email = email
                    /\ DOMAIN u.hashed_password = {"salt", "digest"}
                    /\ u.hashed_password.digest = <<u.hashed_password.salt, senha>>

NoRequest ==
    [pc |-> "idle", gate |-> "none", src |-> "none", uid |-> 0, age |-> 0,
     ran |-> FALSE, upstream |-> "none",
     status |-> 0, detail |-> "", cause |-> "none",
     validated |-> FALSE, resolved |-> FALSE, user |-> 0, sub |-> ""]

\* the credentials a client can present at time t to a gate that checks
\* with `key`: the token of the last response of `routes`, no header, another
\* scheme, a token signed with another key, and tokens signed with `key`
\* that no route of this store issued (no sub claim, a sub that is not an
\* id, a sub that is not stored). The key is configuration read from the
\* environment, not part of the store: a token signed with it stays valid
\* when the table is recreated or when another deployment holds the key,
\* and each get_current_user has a branch for the subject that is not found.
CraftedSubjects == WellFormedEmails \cup {py_str(9)}

Crafted(key, t) ==
    {[scheme |-> "", credentials |-> jwt_encode([exp |-> t], "none")],
     [scheme |-> "Basic", credentials |-> jwt_encode([exp |-> t], "none")],
     Bearer(jwt_encode([exp |-> t + ACCESS_TOKEN_EXPIRE_MINUTES], key))}
    \cup {Bearer(jwt_encode([sub |-> s, exp |-> t + ACCESS_TOKEN_EXPIRE_MINUTES], k)) :
            s \in CraftedSubjects, k \in {key, "forged"}}

Presented(routes, key, t) ==
    {[cred |-> c, src |-> "crafted", uid |-> 0, at |-> t] : c \in Crafted(key, t)}
    \cup (IF resp.status = 200 /\ resp.route \in routes
          THEN {[cred |-> Bearer(resp.body.jwt), src |-> "issued",
                 uid |-> resp.uid, at |-> resp.at]}
          ELSE {})

\* the request after its dependency `gate` answered o at time t; with no
\* error it goes on to `next`
Evaluated(gate, p, o, t, next) ==
    [pc |-> IF o.status = 0 THEN next ELSE "done",
     gate |-> gate, src |-> p.src, uid |-> p.uid, age |-> t - p.at,
     ran |-> FALSE, upstream |-> "none",
     status |-> o.status, detail |-> o.detail, cause |-> o.cause,
     validated |-> o.validated, resolved |-> o.resolved,
     user |-> o.user, sub |-> o.sub]

----------------------------------------------------------------------------
(* The single-file application, app/app.py *)

Init ==
    /\ deploy \in {"app", "pkg"}
    /\ now = 0
    /\ users = {}
    /\ nextId = 1
    /\ reg = [w \in Workers |-> [pc |-> "idle", body |-> NoBody]]
    /\ resp = NoResponse
    /\ regOK = [e \in WellFormedEmails |-> 0]
    /\ loginErr = [absent |-> NoError, wrong |-> NoError]
    /\ req = NoRequest

\* POST /registrar up to the lookup: body validation (UserCreate), then
\* get_user_by_email
app_registrar_lookup(w, body) ==
    /\ deploy = "app"
    /\ reg[w].pc = "idle"
    /\ LET call == Input(~(body.email \in WellFormedEmails), body.senha = "",
                       Stored(users, body.email), FALSE)
       IN IF ~EmailStr(body.email)
          THEN /\ resp' = Response("/registrar", 422, [detail |-> "value_error.email"],
                                   "", call, 0, 0, now)
               /\ UNCHANGED reg
          ELSE IF get_user_by_email(users, body.email) # NoUser
          THEN /\ resp' = Response("/registrar", 409, [detail |-> "Email ja registrado"],
                                   "", call, 0, 0, now)
               /\ UNCHANGED reg
          ELSE /\ reg' = [reg EXCEPT ![w] = [pc |-> "insert", body |-> body]]
               /\ UNCHANGED resp
    /\ UNCHANGED <<deploy, now, users, nextId, regOK, loginErr, req>>

\* POST /registrar from the hash to the response: hash_password, db.add,
\* db.commit (IntegrityError is not caught), db.refresh, create_access_token
app_registrar_commit(w, salt) ==
    /\ deploy = "app"
    /\ reg[w].pc = "insert"
    /\ Cardinality(users) < MaxUsers
    /\ LET body == reg[w].body
           novo == User(nextId, body.name, body.email,
                        hash_password(body.senha, salt))
           call == Input(FALSE, body.senha = "", Stored(users, body.email), FALSE)
       IN IF UniqueViolation(users, body.email)
          THEN /\ resp' = Response("/registrar", 500, [detail |-> "Internal Server Error"],
                                   "", call, 0, 0, now)
               /\ UNCHANGED <<users, nextId, regOK>>
          ELSE /\ users' = users \cup {novo}
               /\ nextId' = nextId + 1
               /\ regOK' = [regOK EXCEPT ![body.email] = @ + 1]
               /\ resp' = Response("/registrar", 200,
                                   [jwt |-> create_access_token(novo.email, now)],
                                   "", call, Cardinality(users') - Cardinality(users),
                                   novo.id, now)
    /\ reg' = [reg EXCEPT ![w] = [pc |-> "idle", body |-> NoBody]]
    /\ UNCHANGED <<deploy, now, loginErr, req>>

\* POST /login
app_login(email, senha) ==
    /\ deploy = "app"
    /\ LET user == authenticate_user(users, email, senha)
           call == Input(FALSE, senha = "", Stored(users, email),
                       Matches(users, email, senha))
       IN IF user = NoUser
          THEN /\ resp' = Response("/login", 401, [detail |-> "Credenciais invalidas"],
                                   "WWW-Authenticate: Bearer", call, 0, 0, now)
               /\ loginErr' = [loginErr EXCEPT ![Cause(users, email)] =
                                 LoginError(401, "Credenciais invalidas",
                                            "WWW-Authenticate: Bearer")]
          ELSE /\ resp' = Response("/login", 200,
                                   [jwt |-> create_access_token(user.email, now)],
                                   "", call, 0, user.id, now)
               /\ UNCHANGED loginErr
    /\ UNCHANGED <<deploy, now, users, nextId, reg, regOK, req>>

\* GET /consultar, the dependency get_current_user
app_consultar_depends ==
    /\ deploy = "app"
    /\ req.pc # "handler"
    /\ \E p \in Presented({"/registrar", "/login"}, SECRET_KEY, now) :
         req' = Evaluated("app", p, app_get_current_user(p.cred, users, now),
                          now, "handler")
    /\ UNCHANGED <<deploy, now, users, nextId, reg, resp, regOK, loginErr>>

\* GET /consultar, the handler consultar
app_consultar ==
    /\ deploy = "app"
    /\ req.pc = "handler"
    /\ req' = [req EXCEPT !.pc = "done", !.ran = TRUE, !.status = 200]
    /\ UNCHANGED <<deploy, now, users, nextId, reg, resp, regOK, loginErr>>

----------------------------------------------------------------------------
(* The package application: the routes of app/main.py *)

\* POST /registrar up to the lookup
main_register_user_lookup(w, body) ==
    /\ deploy = "pkg"
    /\ reg[w].pc = "idle"
    /\ LET call == Input(~(body.email \in WellFormedEmails), body.senha = "",
                       Stored(users, body.email), FALSE)
       IN IF ~EmailStr(body.email)
          THEN /\ resp' = Response("/registrar", 422, [detail |-> "value_error.email"],
                                   "", call, 0, 0, now)
               /\ UNCHANGED reg
          ELSE IF get_user_by_email(users, body.email) # NoUser
          THEN /\ resp' = Response("/registrar", 409, [detail |-> "Email already registered"],
                                   "", call, 0, 0, now)
               /\ UNCHANGED reg
          ELSE /\ reg' = [reg EXCEPT ![w] = [pc |-> "insert", body |-> body]]
               /\ UNCHANGED resp
    /\ UNCHANGED <<deploy, now, users, nextId, regOK, loginErr, req>>

\* POST /registrar from the hash to the response
main_register_user_commit(w, salt) ==
    /\ deploy = "pkg"
    /\ reg[w].pc = "insert"
    /\ Cardinality(users) < MaxUsers
    /\ LET body == reg[w].body
           new_user == User(nextId, body.name, body.email,
                            models_get_password_hash(body.senha, salt))
           call == Input(FALSE, body.senha = "", Stored(users, body.email), FALSE)
       IN IF models_UniqueViolation(users, body.email)
          THEN /\ resp' = Response("/registrar", 500, [detail |-> "Internal Server Error"],
                                   "", call, 0, 0, now)
               /\ UNCHANGED <<users, nextId, regOK>>
          ELSE /\ users' = users \cup {new_user}
               /\ nextId' = nextId + 1
               /\ regOK' = [regOK EXCEPT ![body.email] = @ + 1]
               /\ resp' = Response("/registrar", 200,
                                   [jwt |-> main_create_access_token(
                                              [sub |-> body.email, name |-> body.name], now)],
                                   "", call, Cardinality(users') - Cardinality(users),
                                   new_user.id, now)
    /\ reg' = [reg EXCEPT ![w] = [pc |-> "idle", body |-> NoBody]]
    /\ UNCHANGED <<deploy, now, loginErr, req>>

\* POST /login: the error of the absent email, then the error of the
\* wrong password
main_login_user(email, senha) ==
    /\ deploy = "pkg"
    /\ LET db_user == get_user_by_email(users, email)
           call == Input(FALSE, senha = "", Stored(users, email),
                       Matches(users, email, senha))
       IN IF db_user = NoUser
          THEN /\ resp' = Response("/login", 401, [detail |-> "Invalid credentials"],
                                   "", call, 0, 0, now)
               /\ loginErr' = [loginErr EXCEPT ![Cause(users, email)] =
                                 LoginError(401, "Invalid credentials", "")]
          ELSE IF ~models_verify_password(senha, db_user.hashed_password)
          THEN /\ resp' = Response("/login", 401, [detail |-> "Invalid credentials"],
                                   "", call, 0, 0, now)
               /\ loginErr' = [loginErr EXCEPT ![Cause(users, email)] =
                                 LoginError(401, "Invalid credentials", "")]
          ELSE /\ resp' = Response("/login", 200,
                                   [jwt |-> main_create_access_token(
                                              [sub |-> db_user.email, name |-> db_user.name], now)],
                                   "", call, 0, db_user.id, now)
               /\ UNCHANGED loginErr
    /\ UNCHANGED <<deploy, now, users, nextId, reg, regOK, req>>

\* GET /consultar, the dependency get_current_user
main_fetch_data_depends ==
    /\ deploy = "pkg"
    /\ req.pc # "handler"
    /\ \E p \in Presented({"/registrar", "/login"}, settings_secret_key, now) :
         req' = Evaluated("main", p, main_get_current_user(p.cred, now),
                          now, "handler")
    /\ UNCHANGED <<deploy, now, users, nextId, reg, resp, regOK, loginErr>>

\* GET /consultar, the handler fetch_data: the page of the external site is
\* fetched and parsed, any exception ends the request with 500
main_fetch_data(upstream) ==
    /\ deploy = "pkg"
    /\ req.pc = "handler"
    /\ req' = [req EXCEPT !.pc = "done", !.ran = TRUE, !.upstream = upstream,
                          !.status = IF upstream = "raises" THEN 500 ELSE 200,
                          !.detail = IF upstream = "raises"
                                     THEN "Error fetching data" ELSE ""]
    /\ UNCHANGED <<deploy, now, users, nextId, reg, resp, regOK, loginErr>>

----------------------------------------------------------------------------
(* The package application: the helpers of app/auth.py, as the routes     *)
(* that import them call them                                              *)

\* create_jwt_token for a stored row
auth_create_jwt_token(user) ==
    /\ deploy = "pkg"
    /\ user \in users
    /\ resp' = Response("create_jwt_token", 200, [jwt |-> create_jwt_token(user, now)],
                        "", Input(FALSE, FALSE, TRUE, FALSE), 0, user.id, now)
    /\ UNCHANGED <<deploy, now, users, nextId, reg, regOK, loginErr, req>>

\* the dependency get_current_user of a protected route
auth_depends ==
    /\ deploy = "pkg"
    /\ req.pc # "handler"
    /\ \E p \in Presented({"create_jwt_token"}, auth_SECRET_KEY, now) :
         req' = Evaluated("auth", p, auth_get_current_user(p.cred, users, now),
                          now, "returned")
    /\ UNCHANGED <<deploy, now, users, nextId, reg, resp, regOK, loginErr>>

----------------------------------------------------------------------------
(* The clock *)

Tick(d) ==
    /\ now + d <= MaxTime
    /\ now' = now + d
    /\ UNCHANGED <<deploy, users, nextId, reg, resp, regOK, loginErr, req>>

----------------------------------------------------------------------------
(* Specifications *)

\* registration and login, with every input, concurrent workers and no clock
Next ==
    \/ \E w \in Workers, body \in Bodies : app_registrar_lookup(w, body)
    \/ \E w \in Workers, salt \in Salts : app_registrar_commit(w, salt)
    \/ \E email \in WellFormedEmails, senha \in LoginPasswords : app_login(email, senha)
    \/ \E w \in Workers, body \in Bodies : main_register_user_lookup(w, body)
    \/ \E w \in Workers, salt \in Salts : main_register_user_commit(w, salt)
    \/ \E email \in WellFormedEmails, senha \in LoginPasswords : main_login_user(email, senha)
    \/ \E user \in users : auth_create_jwt_token(user)

Spec == Init /\ [][Next]_vars

\* the protected route over time: registration by one worker and login with
\* one password and one salt, the dependencies, the handlers and the clock
GateWorkers == {1}
GateBodies == {b \in Bodies : b.senha = "secret"}
GateSalts == {1}
GatePasswords == {"secret", "wrong"}

NextGate ==
    \/ \E w \in GateWorkers, body \in GateBodies : app_registrar_lookup(w, body)
    \/ \E w \in GateWorkers, salt \in GateSalts : app_registrar_commit(w, salt)
    \/ \E email \in WellFormedEmails, senha \in GatePasswords : app_login(email, senha)
    \/ app_consultar_depends
    \/ app_consultar
    \/ \E w \in GateWorkers, body \in GateBodies : main_register_user_lookup(w, body)
    \/ \E w \in GateWorkers, salt \in GateSalts : main_register_user_commit(w, salt)
    \/ \E email \in WellFormedEmails, senha \in GatePasswords : main_login_user(email, senha)
    \/ main_fetch_data_depends
    \/ \E upstream \in {"ok", "raises"} : main_fetch_data(upstream)
    \/ \E user \in users : auth_create_jwt_token(user)
    \/ auth_depends
    \/ \E d \in Delays : Tick(d)

SpecGate == Init /\ [][NextGate]_vars

----------------------------------------------------------------------------
(* Properties *)

HasToken(r) == r.status = 200 /\ "jwt" \in DOMAIN r.body

IsBcrypt(h) ==
    /\ DOMAIN h = {"salt", "digest"}
    /\ \E p \in Passwords : h.digest = <<h.salt, p>>

Plaintexts == LoginPasswords \ {""}

\* the lifetime of the tokens the gate validates
Lifetime(gate) ==
    CASE gate = "app" -> ACCESS_TOKEN_EXPIRE_MINUTES
      [] gate = "main" -> settings_access_token_expire_minutes
      [] gate = "auth" -> auth_ACCESS_TOKEN_EXPIRE_MINUTES
      [] OTHER -> 0

\* C1: under any interleaving of concurrent /registrar calls the store holds
\* at most one row per email, and at most one call per email answered 200
C1_OneRowPerEmail ==
    /\ \A u1 \in users, u2 \in users : u1.email = u2.email => u1 = u2
    /\ \A e \in WellFormedEmails : regOK[e] <= 1

\* two calls for one email raced past the lookup; the second insert was refused
C1_Witness ==
    /\ deploy = "app"
    /\ resp.route = "/registrar" /\ resp.status = 500 /\ resp.dup
    /\ \E e \in WellFormedEmails : regOK[e] = 1

\* C2: the handler of /consultar runs only for a request whose token passed
\* validation and whose subject was resolved to a stored identity
C2_HandlerAfterResolution ==
    (req.pc = "handler" \/ req.ran) => (req.validated /\ req.resolved)

\* C3: a token issued at t is rejected by validation at every time after
\* t + TTL and accepted at every time up to t + TTL (with TTL = 30: accepted
\* at t + 29, rejected at t + 31); the clock never goes back, so a token
\* rejected for expiry is rejected ever after
C3_Expiry ==
    /\ [](req.src = "issued" =>
            /\ req.age > Lifetime(req.gate) => (req.cause = "token" /\ req.status = 403)
            /\ req.age <= Lifetime(req.gate) => (req.cause = "ok" /\ req.validated)
            /\ req.age = 29 => req.cause = "ok"
            /\ req.age = 31 => req.cause = "token")
    /\ [][now' >= now]_vars

\* a token of /registrar or /login presented 31 minutes after its issue
C3_Witness ==
    /\ deploy = "app"
    /\ req.src = "issued" /\ req.age = 31 /\ req.status = 403

C6_UniformUnauthorized ==
    (req.gate # "none" /\ ~req.ran /\ req.status # 0) => req.status = 403

\* C7: a /registrar call for an email stored by another call, earlier or
\* concurrent, ends with 409 and adds no row
C7_DuplicateIs409 ==
    (resp.route = "/registrar" /\ resp.dup) => (resp.status = 409 /\ resp.added = 0)

\* C8 as stated: a token of /registrar or /login, presented before its
\* expiry, resolves to the identity it was issued for and the protected
\* route answers 200
ResolvesToIssuee ==
    /\ req.cause = "ok"
    /\ req.gate \in {"app", "auth"} => req.user = req.uid
    /\ req.gate = "main" => req.sub = get_user_by_id(users, req.uid).email

C9_TokenClaims ==
    HasToken(resp) =>
        LET claims == resp.body.jwt.claims IN
        /\ "sub" \in DOMAIN claims /\ claims.sub = py_str(resp.uid)
        /\ "iat" \in DOMAIN claims /\ claims.iat = resp.at
        /\ "exp" \in DOMAIN claims /\ claims.exp = resp.at + 30

\* C10: /registrar with a malformed email or an empty password answers 422,
\* issues no token and adds no row; a /registrar that answers 200 added
\* exactly one row
C10_InvalidInputRejected ==
    resp.route = "/registrar" =>
        /\ (resp.malformed \/ resp.empty) =>
              (resp.status = 422 /\ ~HasToken(resp) /\ resp.added = 0)
        /\ resp.status = 200 => resp.added = 1

====
